---- MODULE Spec2Model ----
(***************************************************************************)
(* A model of src/main.py: the SSE event aggregation of process_sse_events *)
(* and the session / message-list handling of the Streamlit script.        *)
(*                                                                         *)
(* Encoding of Python values.                                              *)
(*  - A str is the sequence of its characters: "" is <<>>, s + t is s \o t.*)
(*  - An optional key of a dict is a sequence of length 0 (key absent) or  *)
(*    1 (key present, holding the element).                                *)
(*  - None is the record None.                                             *)
(*  - A video dict is represented by its videoId.                          *)
(*  - Every dict built at lines 62, 73 and 82 is a new object; bid is the  *)
(*    identity of that object.                                             *)
(***************************************************************************)
EXTENDS Integers, Sequences, FiniteSets, TLC

VARIABLES
    \* st.session_state and the backend
    current_session,    \* st.session_state.current_session (lines 18-19)
    messages,           \* st.session_state.messages (lines 20-21)
    stored,             \* the session the backend holds for the selected app and user
    clock,              \* the value the next datetime.now().timestamp() returns
    nHist,              \* number of messages the last load_session produced
    turns,              \* number of chat turns made
    outcome,            \* what the last operation that read the session did
    \* process_sse_events
    formatted_events,   \* the output list (line 49); after the return, the value returned
    current_event,      \* the builder in progress (line 50)
    pc,                 \* "reading" in the for loop, "returned" after line 97, "idle"
    error_shown,        \* st.error was called at line 95
    raisedBy,           \* what raised into line 94: "none", "iter_lines", "frame"
    nextId,             \* identity of the next dict created
    discarded,          \* the builders that were replaced before a flush
    nLines,             \* number of lines the iterator has delivered
    lastLine,           \* the line delivered last
    allText,            \* while shape is not "other": every text value delivered so
                        \* far, concatenated in arrival order
    shape,              \* what the stream delivered so far looks like (see Shape)
    shadow              \* process_sse_events on the same stream with the malformed
                        \* lines removed

appVars == <<current_session, messages, stored, clock, nHist, turns, outcome>>

sseVars == <<formatted_events, current_event, pc, error_shown, raisedBy, nextId, discarded,
             nLines, lastLine, allText, shape, shadow>>

vars == <<appVars, sseVars>>

\* At most this many lines are delivered by one stream.
MaxLines == 2

None == [type |-> "None"]

\* The first reading of datetime.now().timestamp(): later than the timestamps
\* of the stored events.
Now0 == 3

\* What an operation that read the session used: the status and the app and
\* user values it read.
MkResult(st, a, u) == [status |-> st, app |-> a, user |-> u]

NoResult == MkResult("none", <<>>, <<>>)

\* The session state when the script first runs (lines 18-23).
AppStart ==
    /\ current_session = None
    /\ messages = <<>>
    /\ clock = Now0
    /\ nHist = 0
    /\ turns = 0
    /\ outcome = [op |-> "none", result |-> NoResult]

----------------------------------------------------------------------------
(* The inputs: parts, frames and lines of the wire format.                 *)

Texts == {<<>>, <<"a">>, <<"b">>}

VideoLists == {<<>>, <<"v1">>}

\* The values of part['functionResponse']['response'] (key absent, mapping
\* without videos, mapping with videos).
Responses ==
    {<<>>, <<[videos |-> <<>>]>>} \cup {<<[videos |-> <<v>>]>> : v \in VideoLists}

FunctionCallValue == [name |-> "search_youtube_videos", args |-> "q"]

\* A part that is a JSON object with the given optional keys.
MkPart(fc, fr, tx) ==
    [mapping |-> TRUE, functionCall |-> fc, functionResponse |-> fr, text |-> tx]

\* A part that is not a JSON object (a string, a number, null).
NotAMappingPart ==
    [mapping |-> FALSE, functionCall |-> <<>>, functionResponse |-> <<>>, text |-> <<>>]

TextParts == {MkPart(<<>>, <<>>, <<t>>) : t \in Texts}

FunctionCallParts == {MkPart(<<FunctionCallValue>>, <<>>, <<>>)}

FunctionResponseParts ==
    {MkPart(<<>>, <<[name |-> "search_youtube_videos", response |-> r]>>, <<>>) :
        r \in Responses}
    \cup {MkPart(<<>>, <<[name |-> "get_video_info", response |-> <<[videos |-> <<<<"v1">>>>]>>]>>, <<>>)}

\* A part carrying both functionCall and text: the if/elif chain takes the first.
MixedParts == {MkPart(<<FunctionCallValue>>, <<>>, <<<<"b">>>>)}

Parts == TextParts \cup FunctionCallParts \cup FunctionResponseParts
           \cup MixedParts \cup {NotAMappingPart}

\* The values of content['parts'] drawn: the key absent or an empty list (both
\* <<>>), one part, or two parts.

\* The parts that are combined into frames of two parts.
PairParts ==
    {MkPart(<<>>, <<>>, <<<<"a">>>>), MkPart(<<>>, <<>>, <<<<"b">>>>),
     MkPart(<<FunctionCallValue>>, <<>>, <<>>),
     MkPart(<<>>, <<[name |-> "search_youtube_videos", response |-> <<[videos |-> <<<<"v1">>>>]>>]>>, <<>>),
     NotAMappingPart}

PartSeqs ==
    {<<>>} \cup {<<p>> : p \in Parts} \cup {<<p, q>> : p \in PairParts, q \in PairParts}

\* The values of event_data.get('partial'): absent, false, true.
PartialFlags == {<<>>, <<FALSE>>, <<TRUE>>}

MkLine(k, c, ps, pf) == [kind |-> k, content |-> c, parts |-> ps, partial |-> pf]

\* kind: "empty"      an empty line (line 54 is false)
\*       "nondata"    a line without the 'data: ' prefix (line 56 is false)
\*       "malformed"  a data line whose payload is not JSON
\*       "nonmapping" a data line whose payload is JSON but not an object
\*       "frame"      a data line whose payload is a JSON object
\* content (frames): "absent", "nonmapping" (null, a string, a list), "mapping"
NonFrameLines ==
    {MkLine(k, "absent", <<>>, <<>>) : k \in {"empty", "nondata", "malformed", "nonmapping"}}

FrameLines ==
    {MkLine("frame", c, <<>>, <<>>) : c \in {"absent", "nonmapping"}}
    \cup {MkLine("frame", "mapping", ps, pf) : ps \in PartSeqs, pf \in PartialFlags}

Lines == NonFrameLines \cup FrameLines

NoLine == MkLine("none", "absent", <<>>, <<>>)

----------------------------------------------------------------------------
(* process_sse_events, lines 47-97.                                        *)

\* The accumulator while the parts of one frame are processed.
MkAcc(ce, nid, disc, r) ==
    [current_event |-> ce, nextId |-> nid, discarded |-> disc, raised |-> r]

\* An assignment that only takes effect when no builder is pending.
Replace_IfEmpty(acc, builder) ==
    IF acc.current_event = None
    THEN MkAcc(builder, acc.nextId + 1, acc.discarded, FALSE)
    ELSE [acc EXCEPT !.nextId = @ + 1]

\* Lines 62, 73, 82: current_event = {...}; the dict that was current is no
\* longer referenced.
Replace(acc, builder) ==
    MkAcc(builder, acc.nextId + 1,
          IF acc.current_event = None THEN acc.discarded
          ELSE acc.discarded \cup {acc.current_event},
          FALSE)

\* Lines 62-68.
FunctionCallBuilder(fc, id) ==
    [type |-> "function_call", content |-> <<fc.name, fc.args>>, role |-> "assistant",
     name |-> <<fc.name>>, args |-> <<fc.args>>, bid |-> id]

\* Line 72: response_data.get('response', {}).get('videos', []).
VideosOf(response_data) ==
    IF response_data.response = <<>> THEN <<>>
    ELSE IF response_data.response[1].videos = <<>> THEN <<>>
    ELSE response_data.response[1].videos[1]

\* Lines 73-77.
VideoListBuilder(videos, id) ==
    [type |-> "video_list", content |-> videos, role |-> "assistant",
     name |-> <<>>, args |-> <<>>, bid |-> id]

\* Lines 82-86.
TextBuilder(text, id) ==
    [type |-> "text", content |-> text, role |-> "assistant",
     name |-> <<>>, args |-> <<>>, bid |-> id]

\* Line 80 with the operands swapped.
AppendText_Prepend(content, text) == text \o content

\* Line 80: current_event['content'] += part['text'].
AppendText(content, text) == content \o text

\* Line 78: part.get('text') is truthy for a present, non-empty string.
TextTruthy(part) == part.text # <<>> /\ part.text[1] # <<>>

\* Lines 61-86: one iteration of the loop over the parts.
ProcessPart(acc, part) ==
    IF acc.raised THEN acc
    ELSE IF ~part.mapping
        THEN [acc EXCEPT !.raised = TRUE]
    ELSE IF part.functionCall # <<>>
        THEN Replace(acc, FunctionCallBuilder(part.functionCall[1], acc.nextId))
    ELSE IF part.functionResponse # <<>>
        THEN IF part.functionResponse[1].name = "search_youtube_videos"
             THEN Replace(acc, VideoListBuilder(VideosOf(part.functionResponse[1]), acc.nextId))
             ELSE acc
    ELSE IF TextTruthy(part)
        THEN IF acc.current_event # None /\ acc.current_event.type = "text"
             THEN [acc EXCEPT !.current_event.content = AppendText(@, part.text[1])]
             ELSE Replace(acc, TextBuilder(part.text[1], acc.nextId))
    ELSE acc

RECURSIVE ProcessParts(_, _)
\* Line 60: for part in event_data['content']['parts'].
ProcessParts(acc, parts) ==
    IF parts = <<>> THEN acc
    ELSE ProcessParts(ProcessPart(acc, Head(parts)), Tail(parts))

\* Line 88: not event_data.get('partial').
PartialFalsy(line) == line.partial # <<TRUE>>

\* Line 88 with the truthiness of the content instead of that of the dict.
ShouldFlush_NonEmptyContent(line, ce) ==
    PartialFalsy(line) /\ ce # None /\ ce.content # <<>>

\* Line 88 without the test of the partial flag.
ShouldFlush_IgnorePartial(line, ce) == ce # None

\* Line 88: not event_data.get('partial') and current_event.
ShouldFlush(line, ce) == PartialFalsy(line) /\ ce # None

\* The state of process_sse_events between two lines.
MkSse(fe, ce, nid, disc, r) ==
    [formatted_events |-> fe, current_event |-> ce, nextId |-> nid,
     discarded |-> disc, raised |-> r]

\* Lines 59-90: a frame whose content is a mapping.
ProcessFrame(st, line) ==
    IF line.parts = <<>> THEN st
    ELSE LET acc == ProcessParts(MkAcc(st.current_event, st.nextId, st.discarded, FALSE),
                                 line.parts)
         IN IF acc.raised
            THEN MkSse(st.formatted_events, acc.current_event, acc.nextId, acc.discarded, TRUE)
            ELSE IF ShouldFlush(line, acc.current_event)
            THEN MkSse(Append(st.formatted_events, acc.current_event), None,
                       acc.nextId, acc.discarded, FALSE)
            ELSE MkSse(st.formatted_events, acc.current_event, acc.nextId, acc.discarded, FALSE)

\* A handler that lets the parse error escape.
OnJSONDecodeError_Raise(st) == [st EXCEPT !.raised = TRUE]

\* Lines 92-93: except json.JSONDecodeError: continue.
OnJSONDecodeError(st) == st

\* Lines 54-93: the body of the loop over the lines.  raised: an exception other
\* than json.JSONDecodeError left the inner try.
ProcessLine(st, line) ==
    IF line.kind \in {"empty", "nondata"} THEN st
    ELSE IF line.kind = "malformed" THEN OnJSONDecodeError(st)
    ELSE IF line.kind = "nonmapping" THEN [st EXCEPT !.raised = TRUE]
    ELSE IF line.content = "absent" THEN st
    ELSE IF line.content = "nonmapping" THEN [st EXCEPT !.raised = TRUE]
    ELSE ProcessFrame(st, line)

----------------------------------------------------------------------------
(* What the stream delivered so far (history of the input).                *)

RECURSIVE TextOfParts(_)
\* The text values of the parts, concatenated in order.
TextOfParts(parts) ==
    IF parts = <<>> THEN <<>>
    ELSE (IF Head(parts).text = <<>> THEN <<>> ELSE Head(parts).text[1])
         \o TextOfParts(Tail(parts))

\* A frame that carries text parts and nothing else.
IsTextFrame(line) ==
    /\ line.kind = "frame" /\ line.content = "mapping" /\ line.parts # <<>>
    /\ \A i \in 1..Len(line.parts) : line.parts[i] \in TextParts

\* "prefix": only text frames with partial:true so far (possibly none);
\* "final":  such a prefix followed by one text frame with partial:false;
\* "other":  anything else.
Shape(sh, line) ==
    IF sh = "prefix" /\ IsTextFrame(line)
    THEN (IF line.partial = <<TRUE>> THEN "prefix"
          ELSE "final")
    ELSE "other"

----------------------------------------------------------------------------
(* process_sse_events run line by line.                                    *)

\* The state of process_sse_events when the for loop is entered (lines 49-50).
SseStart == MkSse(<<>>, None, 1, {}, FALSE)

\* process_sse_events has just been called.
SseInit ==
    /\ AppStart
    /\ stored = None
    /\ formatted_events = SseStart.formatted_events
    /\ current_event = SseStart.current_event
    /\ nextId = SseStart.nextId
    /\ discarded = SseStart.discarded
    /\ pc = "reading"
    /\ error_shown = FALSE
    /\ raisedBy = "none"
    /\ nLines = 0
    /\ lastLine = NoLine
    /\ allText = <<>>
    /\ shape = "prefix"
    /\ shadow = [st |-> SseStart, skipped |-> 0]

\* An except branch that gives up what was collected.
ReturnedOnError_Empty(fe) == <<>>

\* Lines 94-97: after the except branch, return formatted_events.
ReturnedOnError(fe) == fe

\* A return that first flushes the builder in progress.
ReturnedAtEnd_Flush(fe, ce) == IF ce # None THEN Append(fe, ce) ELSE fe

\* Line 97 after the loop ended normally: return formatted_events.
ReturnedAtEnd(fe, ce) == fe

\* The same loop body on the stream without its malformed lines.
ShadowLine(sh, line) ==
    IF line.kind = "malformed" THEN [sh EXCEPT !.skipped = @ + 1]
    ELSE [sh EXCEPT !.st = ProcessLine(@, line)]

\* Lines 53-93: the iterator delivers one line and the loop body runs; an
\* exception other than JSONDecodeError reaches line 94 and the function returns.
ReadLine(line) ==
    /\ pc = "reading"
    /\ nLines < MaxLines
    /\ LET r == ProcessLine(MkSse(formatted_events, current_event, nextId, discarded, FALSE),
                            line)
       IN /\ formatted_events' = IF r.raised THEN ReturnedOnError(r.formatted_events)
                                ELSE r.formatted_events
          /\ current_event' = r.current_event
          /\ nextId' = r.nextId
          /\ discarded' = r.discarded
          /\ pc' = IF r.raised THEN "returned" ELSE "reading"
          /\ error_shown' = r.raised
          /\ raisedBy' = IF r.raised THEN "frame" ELSE "none"
    /\ nLines' = nLines + 1
    /\ lastLine' = line
    /\ shape' = Shape(shape, line)
    /\ allText' = IF shape' = "other" THEN <<>> ELSE allText \o TextOfParts(line.parts)
    /\ shadow' = ShadowLine(shadow, line)
    /\ UNCHANGED appVars

\* Line 53: response.iter_lines() raises (the transport failed); lines 94-97.
IterRaises ==
    /\ pc = "reading"
    /\ pc' = "returned"
    /\ error_shown' = TRUE
    /\ raisedBy' = "iter_lines"
    /\ formatted_events' = ReturnedOnError(formatted_events)
    /\ UNCHANGED <<current_event, nextId, discarded, nLines,
                   lastLine, allText, shape, shadow>>
    /\ UNCHANGED appVars

\* Line 53: the iterator is exhausted; line 97.
StreamEnd ==
    /\ pc = "reading"
    /\ pc' = "returned"
    /\ formatted_events' = ReturnedAtEnd(formatted_events, current_event)
    /\ UNCHANGED <<current_event, error_shown, raisedBy, nextId, discarded,
                   nLines, lastLine, allText, shape, shadow>>
    /\ UNCHANGED appVars

SseNext ==
    \/ \E line \in Lines : ReadLine(line)
    \/ IterRaises
    \/ StreamEnd

SpecSSE == SseInit /\ [][SseNext]_vars

----------------------------------------------------------------------------
(* Properties of process_sse_events, checked under SpecSSE.                *)

\* The step just taken delivered a line.
LineDelivered == nLines' = nLines + 1

Last(seq) == seq[Len(seq)]

IsPrefix(a, b) == Len(a) <= Len(b) /\ SubSeq(b, 1, Len(a)) = a

\* C1 as stated: after n >= 0 text frames with partial:true and one text frame
\* with partial:false, from an empty accumulator, exactly one event was emitted,
\* of type text, whose content is the concatenation of every text delivered.
C1_Original ==
    shape = "final" =>
        /\ Len(formatted_events) = 1
        /\ formatted_events[1].type = "text"
        /\ formatted_events[1].content = allText

\* C1 amended: the same, provided at least one of the text values is not the
\* empty string; when all of them are empty no event is emitted.
C1_Amended ==
    shape = "final" =>
        IF allText = <<>>
        THEN formatted_events = <<>>
        ELSE /\ Len(formatted_events) = 1
             /\ formatted_events[1].type = "text"
             /\ formatted_events[1].content = allText

C1_Witness ==
    /\ shape = "final"
    /\ nLines >= 2
    /\ Len(formatted_events) = 1
    /\ formatted_events[1].content = <<"a", "b">>

\* C2 as stated: when the line iterator raises, process_sse_events returns the
\* empty sequence.
C2_Original ==
    (pc = "returned" /\ raisedBy = "iter_lines") => formatted_events = <<>>

\* C2 amended: when the line iterator raises, the error is reported and
\* process_sse_events returns exactly the events finalized before the failure;
\* the builder in progress is not among them.
C2_Amended ==
    [][(pc = "reading" /\ pc' = "returned" /\ raisedBy' = "iter_lines") =>
          /\ error_shown'
          /\ formatted_events' = formatted_events
          /\ current_event # None =>
                \A i \in 1..Len(formatted_events') :
                    formatted_events'[i].bid # current_event.bid]_vars

C2_Witness ==
    /\ pc = "returned"
    /\ raisedBy = "iter_lines"
    /\ formatted_events # <<>>
    /\ current_event # None

\* C3: a data line whose payload is not JSON changes neither the builder nor
\* the output and does not end the loop: at every point the state is the one
\* reached on the same stream with the malformed lines removed.
C3_MalformedSkipped ==
    shadow.st = MkSse(formatted_events, current_event, nextId, discarded,
                      raisedBy = "frame")

C3_Witness ==
    /\ shadow.skipped = 1
    /\ nLines = 2
    /\ lastLine = MkLine("frame", "mapping", <<MkPart(<<>>, <<>>, <<<<"a">>>>)>>, <<FALSE>>)
    /\ Len(formatted_events) = 1
    /\ formatted_events[1].type = "text"
    /\ formatted_events[1].content = <<"a">>

\* C4 as stated: no frame ends the processing of the stream; only a failure of
\* the transport does.
C4_Claim == pc = "returned" => raisedBy \in {"none", "iter_lines"}

\* The bid of every builder that was replaced.
DiscardedIds == {d.bid : d \in discarded}

\* A frame all of whose parts were processed and whose last part is a functionCall.
EndsWithFunctionCall(line) ==
    /\ line.kind = "frame" /\ line.content = "mapping" /\ line.parts # <<>>
    /\ Last(line.parts).functionCall # <<>>

EmptyVideoFrames ==
    {l \in FrameLines :
        /\ l.content = "mapping" /\ Len(l.parts) = 1
        /\ l.parts[1].mapping
        /\ l.parts[1].functionCall = <<>>
        /\ l.parts[1].functionResponse # <<>>
        /\ l.parts[1].functionResponse[1].name = "search_youtube_videos"
        /\ l.parts[1].functionResponse[1].response \in
              {<<>>, <<[videos |-> <<>>]>>, <<[videos |-> <<<<>>>>]>>}
        /\ PartialFalsy(l)}

\* C7: such a frame appends exactly one event, of type video_list, whose
\* content is the empty sequence.
C7_EmptyVideoList ==
    [][(LineDelivered /\ lastLine' \in EmptyVideoFrames) =>
          /\ Len(formatted_events') = Len(formatted_events) + 1
          /\ IsPrefix(formatted_events, formatted_events')
          /\ Last(formatted_events').type = "video_list"
          /\ Last(formatted_events').content = <<>>
          /\ current_event' = None]_vars

C7_Witness ==
    /\ lastLine \in EmptyVideoFrames
    /\ lastLine.parts[1].functionResponse[1].response = <<[videos |-> <<<<>>>>]>>
    /\ formatted_events # <<>>
    /\ Last(formatted_events).type = "video_list"
    /\ Last(formatted_events).content = <<>>

\* The builder after the parts of the frame were processed.
BuilderAfterParts(line) ==
    ProcessParts(MkAcc(current_event, nextId, discarded, FALSE), line.parts).current_event

\* C9: a frame whose parts were processed appends an event iff its parts are
\* non-empty, its partial flag is falsy and the builder is non-empty after the
\* parts; it appends exactly that builder and resets current_event.  Without
\* parts nothing changes; with partial:true nothing is appended and the builder
\* stays.  So every frame appends at most one event, at the end of the output.
C9_EmissionRule ==
    [][(LineDelivered /\ lastLine'.kind = "frame" /\ pc' = "reading") =>
          LET l == lastLine'
              hasParts == l.content = "mapping" /\ l.parts # <<>>
              b == BuilderAfterParts(l)
              appended == Len(formatted_events') = Len(formatted_events) + 1
          IN /\ IsPrefix(formatted_events, formatted_events')
             /\ Len(formatted_events') <= Len(formatted_events) + 1
             /\ appended <=> (hasParts /\ PartialFalsy(l) /\ b # None)
             /\ appended => (Last(formatted_events') = b /\ current_event' = None)
             /\ ~hasParts =>
                   (current_event' = current_event /\ formatted_events' = formatted_events)
             /\ (hasParts /\ l.partial = <<TRUE>>) =>
                   (formatted_events' = formatted_events /\ current_event' = b)]_vars

\* A frame without parts and with partial:false while a builder is pending.
C9_Witness ==
    /\ lastLine = MkLine("frame", "mapping", <<>>, <<FALSE>>)
    /\ current_event # None
    /\ pc = "reading"

\* C10: when the stream ends while a builder is pending, the builder is dropped
\* without an error: the value returned is the output as it was, and the
\* builder is not in it.
C10_TrailingDropped ==
    [][(pc = "reading" /\ pc' = "returned" /\ raisedBy' = "none") =>
          /\ formatted_events' = formatted_events
          /\ ~error_shown'
          /\ current_event' # None =>
                \A i \in 1..Len(formatted_events') :
                    formatted_events'[i].bid # current_event'.bid]_vars

C10_Witness ==
    /\ pc = "returned"
    /\ raisedBy = "none"
    /\ current_event # None
    /\ lastLine.partial = <<TRUE>>
    /\ formatted_events # <<>>

----------------------------------------------------------------------------
(* Sessions and their stored events.                                       *)

\* At most this many events in a stored session.
MaxHistory == 2

\* At most this many chat turns.
MaxTurns == 1

\* A part of a stored event: the keys function_response and text.
MkHistPart(fr, tx) == [function_response |-> fr, text |-> tx]

HistText(t) == MkHistPart(<<>>, <<t>>)

HistVideos(v) == MkHistPart(<<[response |-> <<[videos |-> <<v>>]>>]>>, <<>>)

\* parts: <<>> stands for an absent content, absent parts or an empty list.
MkEvent(a, t, ps) == [author |-> a, timestamp |-> t, parts |-> ps]

HistPartSeqs ==
    {<<HistText(<<"a">>)>>, <<HistVideos(<<"v1">>)>>, <<HistVideos(<<>>)>>,
     <<HistText(<<"b">>), HistVideos(<<"v1">>)>>}

HistEvents ==
    {MkEvent(at[1], at[2], ps) :
        at \in {<<<<>>, <<>>>>, <<<<"user">>, <<1>>>>},
        ps \in HistPartSeqs}

RECURSIVE SeqsUpTo(_, _)
\* The sequences over S of length at most n.
SeqsUpTo(S, n) ==
    IF n = 0 THEN {<<>>}
    ELSE SeqsUpTo(S, n - 1) \cup {Append(q, x) : q \in {r \in SeqsUpTo(S, n - 1) : Len(r) = n - 1}, x \in S}

\* The two spellings of the app and user keys; a session has one or both.
Spellings == {"snake", "camel", "both"}

MkSession(id, sp, evs) ==
    [id |-> id,
     app_name |-> IF sp \in {"snake", "both"} THEN <<"app1">> ELSE <<>>,
     user_id |-> IF sp \in {"snake", "both"} THEN <<"user123">> ELSE <<>>,
     appName |-> IF sp \in {"camel", "both"} THEN <<"app1">> ELSE <<>>,
     userId |-> IF sp \in {"camel", "both"} THEN <<"user123">> ELSE <<>>,
     events |-> evs]

Sessions == {MkSession("s1", sp, evs) : sp \in Spellings, evs \in SeqsUpTo(HistEvents, MaxHistory)}

----------------------------------------------------------------------------
(* load_session, lines 153-179.                                            *)

\* Lines 165-170 and 172-177.
MkHistMessage(type, content, event, defaultRole) ==
    [type |-> type, content |-> content,
     role |-> IF event.author = <<>> THEN defaultRole ELSE event.author[1],
     timestamp |-> IF event.timestamp = <<>> THEN 0 ELSE event.timestamp[1]]

\* Line 163-164: part['function_response'].get('response', {}) and its videos.
HistVideosOf(part) ==
    IF part.function_response[1].response = <<>> THEN <<>>
    ELSE IF part.function_response[1].response[1].videos = <<>> THEN <<>>
    ELSE part.function_response[1].response[1].videos[1]

\* Lines 162-177: the messages one part of an event produces.
PartMessages(event, part) ==
    IF part.function_response # <<>>
    THEN IF HistVideosOf(part) # <<>>
         THEN <<MkHistMessage("video_list", HistVideosOf(part), event, "assistant")>>
         ELSE <<>>
    ELSE IF part.text # <<>> /\ part.text[1] # <<>>
    THEN <<MkHistMessage("text", part.text[1], event, "unknown")>>
    ELSE <<>>

RECURSIVE EventMessages(_, _)
\* Line 161: for part in event['content']['parts'].
EventMessages(event, parts) ==
    IF parts = <<>> THEN <<>>
    ELSE PartMessages(event, Head(parts)) \o EventMessages(event, Tail(parts))

RECURSIVE HistoryMessages_Reversed(_)
\* The same loop inserting each event's messages at the front of the list.
HistoryMessages_Reversed(events) ==
    IF events = <<>> THEN <<>>
    ELSE HistoryMessages_Reversed(Tail(events)) \o EventMessages(Head(events), Head(events).parts)

RECURSIVE HistoryMessages(_)
\* Lines 158-177: for event in session.get('events', []).
HistoryMessages(events) ==
    IF events = <<>> THEN <<>>
    ELSE EventMessages(Head(events), Head(events).parts) \o HistoryMessages(Tail(events))

----------------------------------------------------------------------------
(* send_message and process_sse_events on a whole stream.                  *)

TextFrame(t, pf) == MkLine("frame", "mapping", <<MkPart(<<>>, <<>>, <<t>>)>>, pf)

\* The streams a chat turn may receive: the lines delivered, and whether the
\* iterator raises after them.
TurnLineSeqs ==
    {<<>>,
     <<TextFrame(<<"a">>, <<FALSE>>), TextFrame(<<"b">>, <<TRUE>>)>>,
     <<TextFrame(<<"a">>, <<TRUE>>), TextFrame(<<"b">>, <<>>)>>,
     <<MkLine("frame", "mapping",
              <<MkPart(<<>>, <<[name |-> "search_youtube_videos",
                                response |-> <<[videos |-> <<<<"v1">>>>]>>]>>, <<>>)>>,
              <<FALSE>>),
       TextFrame(<<"b">>, <<FALSE>>)>>,
     <<MkLine("malformed", "absent", <<>>, <<>>),
       MkLine("frame", "mapping", <<MkPart(<<FunctionCallValue>>, <<>>, <<>>)>>, <<>>),
       MkLine("frame", "nonmapping", <<>>, <<>>)>>}

TurnStreams == [lines : TurnLineSeqs, fails : BOOLEAN]

RECURSIVE RunLines(_, _)
\* Lines 53-93: the loop over the lines, left when an exception escapes.
RunLines(st, lines) ==
    IF lines = <<>> \/ st.raised THEN st
    ELSE RunLines(ProcessLine(st, Head(lines)), Tail(lines))

\* Lines 47-97.
process_sse_events(stream) ==
    LET st == RunLines(SseStart, stream.lines)
    IN IF st.raised \/ stream.fails
       THEN [events |-> ReturnedOnError(st.formatted_events), error |-> TRUE]
       ELSE [events |-> ReturnedAtEnd(st.formatted_events, st.current_event),
             error |-> FALSE]

\* Lines 130-146: requestOk is whether make_api_request returned a response.
send_message(requestOk, stream) ==
    IF requestOk THEN process_sse_events(stream)
    ELSE [events |-> <<>>, error |-> TRUE]

----------------------------------------------------------------------------
(* The script: session management and the chat turn.                       *)

\* Lines 278-280: session.get('app_name'), session.get('user_id').
InfoKeys(session) == MkResult("ok", session.app_name, session.user_id)

\* Line 338: session['appName'], session['userId'].
ChatKeys(session) ==
    IF session.appName = <<>> \/ session.userId = <<>>
    THEN MkResult("KeyError", <<>>, <<>>)
    ELSE MkResult("ok", session.appName, session.userId)

\* Line 367: session['app_name'], session['user_id'].
ArtifactKeys(session) ==
    IF session.app_name = <<>> \/ session.user_id = <<>>
    THEN MkResult("KeyError", <<>>, <<>>)
    ELSE MkResult("ok", session.app_name, session.user_id)

\* Lines 326-330.
UserMessage(prompt, now) == [role |-> "user", content |-> prompt, timestamp |-> now]

\* Lines 343-349: the events built by process_sse_events carry neither author,
\* text nor timestamp.
EventMessage(event, now) ==
    [role |-> "assistant", content |-> event.content, text |-> <<>>,
     type |-> event.type, timestamp |-> now]

\* Lines 341-349: every event read the clock once, in order.
StreamedMessages(events, now) ==
    [k \in 1..Len(events) |-> EventMessage(events[k], now + k - 1)]

Init ==
    /\ AppStart
    /\ stored \in Sessions
    /\ formatted_events = <<>>
    /\ current_event = None
    /\ pc = "idle"
    /\ error_shown = FALSE
    /\ raisedBy = "none"
    /\ nextId = 1
    /\ discarded = {}
    /\ nLines = 0
    /\ lastLine = NoLine
    /\ allText = <<>>
    /\ shape = "prefix"
    /\ shadow = [st |-> SseStart, skipped |-> 0]

sseGhosts == <<current_event, pc, raisedBy, nextId, discarded, nLines, lastLine,
               allText, shape, shadow>>

\* Lines 107-115 (called at 265-268): the backend returns a new session, with
\* the key spelling it uses for its sessions, or the request fails.
create_session(requestOk) ==
    /\ IF requestOk
       THEN /\ current_session' = [stored EXCEPT !.id = "s2", !.events = <<>>]
            /\ messages' = <<>>
            /\ nHist' = 0
            /\ outcome' = [op |-> "create", result |-> NoResult]
       ELSE UNCHANGED <<current_session, messages, nHist, outcome>>
    /\ UNCHANGED <<stored, clock, turns, formatted_events, error_shown, sseGhosts>>

\* Lines 153-179 (called at 261-262).
load_session(requestOk) ==
    /\ IF requestOk
       THEN /\ current_session' = stored
            /\ messages' = HistoryMessages(stored.events)
            /\ nHist' = Len(messages')
            /\ outcome' = [op |-> "load", result |-> NoResult]
       ELSE UNCHANGED <<current_session, messages, nHist, outcome>>
    /\ UNCHANGED <<stored, clock, turns, formatted_events, error_shown, sseGhosts>>

\* Lines 271-283.
ShowSessionInfo ==
    /\ current_session # None
    /\ outcome' = [op |-> "info", result |-> InfoKeys(current_session)]
    /\ UNCHANGED <<current_session, messages, stored, clock, nHist, turns,
                   formatted_events, error_shown, sseGhosts>>

\* Lines 324-354: the user message is appended, then send_message runs and its
\* events are appended; a KeyError at line 338 ends the run after the user message.
ChatTurn(prompt, requestOk, stream) ==
    /\ current_session # None
    /\ turns < MaxTurns
    /\ turns' = turns + 1
    /\ LET keys == ChatKeys(current_session)
           withUser == Append(messages, UserMessage(prompt, clock))
       IN /\ outcome' = [op |-> "chat", result |-> keys]
          /\ IF keys.status = "KeyError"
             THEN /\ messages' = withUser
                  /\ clock' = clock + 1
                  /\ UNCHANGED <<formatted_events, error_shown>>
             ELSE LET r == send_message(requestOk, stream)
                  IN /\ formatted_events' = r.events
                     /\ error_shown' = r.error
                     /\ messages' = withUser \o StreamedMessages(r.events, clock + 1)
                     /\ clock' = clock + 1 + Len(r.events)
    /\ UNCHANGED <<current_session, stored, nHist, sseGhosts>>

\* Lines 362-371.
ListArtifacts ==
    /\ current_session # None
    /\ outcome' = [op |-> "artifacts", result |-> ArtifactKeys(current_session)]
    /\ UNCHANGED <<current_session, messages, stored, clock, nHist, turns,
                   formatted_events, error_shown, sseGhosts>>

Prompts == {<<"h", "i">>}

Next ==
    \/ \E ok \in BOOLEAN : create_session(ok)
    \/ \E ok \in BOOLEAN : load_session(ok)
    \/ ShowSessionInfo
    \/ \E p \in Prompts, stream \in TurnStreams : ChatTurn(p, TRUE, stream)
    \/ \E p \in Prompts : ChatTurn(p, FALSE, [lines |-> <<>>, fails |-> TRUE])
    \/ ListArtifacts

Spec == Init /\ [][Next]_vars

----------------------------------------------------------------------------
(* Properties of the session handling, checked under Spec.                 *)

\* The session with the values of the two spellings exchanged.
AliasSwap(session) ==
    [session EXCEPT !.app_name = session.appName, !.appName = session.app_name,
                    !.user_id = session.userId, !.userId = session.user_id]

\* C6 as stated: whatever an operation read from the session, it reads the same
\* from the session that carries the other spelling of the keys: same status,
\* same app and user values.
C6_Claim ==
    /\ outcome.op = "info" => outcome.result = InfoKeys(AliasSwap(current_session))
    /\ outcome.op = "chat" => outcome.result = ChatKeys(AliasSwap(current_session))
    /\ outcome.op = "artifacts" => outcome.result = ArtifactKeys(AliasSwap(current_session))

RECURSIVE Flatten(_)
\* The parts of the stored events in stored order, each with its event.
Flatten(events) ==
    IF events = <<>> THEN <<>>
    ELSE [i \in 1..Len(Head(events).parts) |->
             [part |-> Head(events).parts[i], event |-> Head(events)]]
         \o Flatten(Tail(events))

\* Message m shows part c: same content, and the timestamp of its event.
Shows(m, c) ==
    /\ c.event.timestamp # <<>> => m.timestamp = c.event.timestamp[1]
    /\ \/ m.type = "text" /\ c.part.text = <<m.content>>
       \/ /\ m.type = "video_list"
          /\ c.part.function_response # <<>>
          /\ c.part.function_response[1].response # <<>>
          /\ c.part.function_response[1].response[1].videos = <<m.content>>

RECURSIVE Embeds(_, _)
\* The messages ms show parts of cs in the order of cs, each part at most once.
Embeds(ms, cs) ==
    IF ms = <<>> THEN TRUE
    ELSE IF cs = <<>> THEN FALSE
    ELSE IF Shows(Head(ms), Head(cs)) THEN Embeds(Tail(ms), Tail(cs))
    ELSE Embeds(ms, Tail(cs))

\* The first n messages are the loaded history, in stored order.
HistoryKept(msgs, n, session) ==
    /\ n <= Len(msgs)
    /\ session = None => n = 0
    /\ session # None => Embeds(SubSeq(msgs, 1, n), Flatten(session.events))

\* C8: the messages of the loaded history keep the order of session.events and
\* of the parts, and their timestamps; a chat turn leaves them in place and
\* appends, after everything, its user message and then the events returned by
\* send_message in emission order, each with the local time of its insertion.
C8_HistoryThenTurns ==
    [][/\ HistoryKept(messages', nHist', current_session')
       /\ turns' = turns + 1 =>
            LET n == Len(messages)
                ev == formatted_events'
                streamed == IF outcome'.result.status = "ok" THEN Len(ev) ELSE 0
            IN /\ nHist' = nHist
               /\ IsPrefix(messages, messages')
               /\ Len(messages') = n + 1 + streamed
               /\ messages'[n + 1].role = "user"
               /\ messages'[n + 1].timestamp = clock
               /\ \A k \in 1..streamed :
                     /\ messages'[n + 1 + k].type = ev[k].type
                     /\ messages'[n + 1 + k].content = ev[k].content
                     /\ messages'[n + 1 + k].timestamp = clock + k
                     /\ messages'[n + 1 + k].timestamp > messages'[n + k].timestamp]_vars

\* A loaded history of two messages from different events, then a turn that
\* streamed two events.
C8_Witness ==
    /\ nHist = 2
    /\ messages[1].timestamp # messages[2].timestamp
    /\ turns = 1
    /\ Len(messages) = nHist + 3
    /\ messages[nHist + 1].role = "user"
    /\ messages[nHist + 2].type = "video_list"
    /\ messages[nHist + 3].type = "text"
====
